---- MODULE Spec2Model ----
(***************************************************************************)
(* Model of the schema-driven field assembler of the Kestrel Development   *)
(* Kit (src/kas/assemblers/assembler.cpp) together with the raw resource   *)
(* model it reads (src/kas/structures/resource.cpp).                       *)
(*                                                                         *)
(* A resource is built with add_field, an assembler is constructed over    *)
(* it, assemble(field) is called once per schema field and assemble()      *)
(* hands the accumulated blob back.                                        *)
(***************************************************************************)
EXTENDS Integers, Sequences, FiniteSets, TLC

VARIABLES
    m_fields,   \* kdk::resource::m_fields, the raw fields in insertion order
    pc,         \* "build" | "ready" | "done": position of the driver
    m_blob,     \* rsrc::data: [bytes, ip] the bytes and the insertion point
    diag,       \* the diagnostics reported through log::error / log::warning
    status,     \* "ok" | "threw" (a C++ exception left assemble) | "crashed"
    calls,      \* number of assemble(field) calls made
    last,       \* history: the most recent assemble(field) call
    maxReq      \* history: max required_data_size() over the fields assembled

vars == <<m_fields, pc, m_blob, diag, status, calls, last, maxReq>>

\* --------------------------------------------------------------------------
\* Bounds of the model
\* --------------------------------------------------------------------------
MaxFields == 1      \* raw fields added to the resource
MaxCalls == 2       \* assemble(field) calls per assembler

\* --------------------------------------------------------------------------
\* Literal text.  A literal is a sequence of characters; Ord gives the byte
\* a character is stored as.
\* --------------------------------------------------------------------------
Digits == <<"0", "1", "2", "3", "4", "5", "6", "7", "8", "9">>

RECURSIVE IndexOf(_, _, _)
IndexOf(s, c, i) ==
    IF i > Len(s) THEN 0 ELSE IF s[i] = c THEN i ELSE IndexOf(s, c, i + 1)

IsDigit(c) == IndexOf(Digits, c, 1) # 0
DigitVal(c) == IndexOf(Digits, c, 1) - 1

Ord(c) ==
    IF IsDigit(c) THEN 48 + DigitVal(c)
    ELSE CASE c = "-" -> 45
           [] c = "B" -> 66
           [] c = "H" -> 72
           [] c = "N" -> 78
           [] c = "R" -> 82
           [] c = "d" -> 100
           [] c = "e" -> 101
           [] c = "i" -> 105
           [] c = "k" -> 107
           [] c = "n" -> 110
           [] c = "o" -> 111

\* std::stol / std::stoi / std::stoul: an optional sign, then the longest
\* run of digits; std::invalid_argument when there is no digit.
RECURSIVE DigitRun(_, _, _)
DigitRun(s, i, acc) ==
    IF i <= Len(s) /\ IsDigit(s[i])
    THEN DigitRun(s, i + 1, acc * 10 + DigitVal(s[i]))
    ELSE acc

Negative(s) == Len(s) >= 1 /\ s[1] = "-"
FirstDigit(s) == IF Negative(s) THEN 2 ELSE 1
Converts(s) == FirstDigit(s) <= Len(s) /\ IsDigit(s[FirstDigit(s)])
stol(s) ==
    IF Negative(s) THEN 0 - DigitRun(s, 2, 0) ELSE DigitRun(s, 1, 0)

\* The bytes of a two's-complement integer of the given width, most
\* significant byte first: the static_cast to the fixed-width type followed
\* by the sink's fixed-width write.
RECURSIVE IntBytes(_, _)
IntBytes(n, width) ==
    IF width = 0 THEN <<>>
    ELSE IntBytes(n \div 256, width - 1) \o <<n % 256>>

RECURSIVE TextBytes(_, _)
TextBytes(s, i) ==
    IF i > Len(s) THEN <<>> ELSE <<Ord(s[i])>> \o TextBytes(s, i + 1)

RECURSIVE Zeros(_)
Zeros(n) == IF n <= 0 THEN <<>> ELSE <<0>> \o Zeros(n - 1)

\* --------------------------------------------------------------------------
\* The byte sink (rsrc::data).  d is [bytes, ip].
\* --------------------------------------------------------------------------
data_size(d) == Len(d.bytes)

set_insertion_point(d, p) == [d EXCEPT !.ip = p]

pad_to_size(d, n) ==
    IF data_size(d) >= n THEN d
    ELSE [bytes |-> d.bytes \o Zeros(n - data_size(d)), ip |-> n]

write_byte(d, b) ==
    LET gap == IF d.ip > data_size(d) THEN Zeros(d.ip - data_size(d)) ELSE <<>>
        cur == d.bytes \o gap
    IN  [bytes |-> IF d.ip < Len(cur)
                   THEN [cur EXCEPT ![d.ip + 1] = b]
                   ELSE Append(cur, b),
         ip |-> d.ip + 1]

RECURSIVE write_bytes(_, _, _)
write_bytes(d, bs, i) ==
    IF i > Len(bs) THEN d ELSE write_bytes(write_byte(d, bs[i]), bs, i + 1)

write_signed_word(d, n) == write_bytes(d, IntBytes(n, 2), 1)
write_long(d, n) == write_bytes(d, IntBytes(n, 4), 1)
write_integer(d, n, width) == write_bytes(d, IntBytes(n, width), 1)

write_cstr(d, text, width) ==
    LET bs == TextBytes(text, 1)
    IN  write_bytes(d, IF Len(bs) >= width THEN SubSeq(bs, 1, width)
                       ELSE bs \o Zeros(width - Len(bs)), 1)

write_pstr(d, text) ==
    write_bytes(d, <<Len(text)>> \o TextBytes(text, 1), 1)

\* --------------------------------------------------------------------------
\* Diagnostics (diagnostic/log.hpp).  A report is appended to the run's
\* diagnostics and control returns to the caller.  A message is kept as the
\* kind of its text plus the field name or literal and the value index that
\* the source concatenates into it.
\* --------------------------------------------------------------------------
Message(kind, subject, index) ==
    [kind |-> kind, subject |-> subject, index |-> index]

log_error(x, msg) ==
    [x EXCEPT !.diag = Append(@, [level |-> "error", msg |-> msg])]

log_warning(x, msg) ==
    [x EXCEPT !.diag = Append(@, [level |-> "warning", msg |-> msg])]

\* An exception leaving the assembler, and a fault of the process.
throw(x) == [x EXCEPT !.status = "threw"]
crash(x) == [x EXCEPT !.status = "crashed"]

\* --------------------------------------------------------------------------
\* Raw resource model (kdk::resource, kdk::resource::field)
\* --------------------------------------------------------------------------
ValueTypes ==
    {"integer", "percentage", "resource_id", "string", "identifier",
     "file_reference", "color"}

Value(text, type) == [text |-> text, type |-> type]

resource_field(name, values) == [m_name |-> name, m_values |-> values]

RECURSIVE FirstNamed(_, _, _)
FirstNamed(fields, name, i) ==
    IF i > Len(fields) THEN <<>>
    ELSE IF fields[i].m_name = name THEN <<fields[i]>>
    ELSE FirstNamed(fields, name, i + 1)

\* kdk::resource::field_named: the first field of that name, or nothing.
field_named(fields, name) == FirstNamed(fields, name, 1)

\* --------------------------------------------------------------------------
\* Field schema (kdk::assembler::field and kdk::assembler::field::value)
\* --------------------------------------------------------------------------
expect(name, type, offset, sz) ==
    [m_name |-> name, m_type_mask |-> type, m_offset |-> offset,
     m_size |-> sz, m_symbols |-> <<>>, m_default_value |-> <<>>]

set_symbols(v, symbols) == [v EXCEPT !.m_symbols = symbols]

\* A default generator is kept as the width and the integer it writes at
\* the cursor it is handed.
set_default_value(v, gen) == [v EXCEPT !.m_default_value = <<gen>>]

named(name) ==
    [m_name |-> name, m_deprecated |-> FALSE, m_required |-> FALSE,
     m_expected_values |-> <<>>]

set_deprecated(f, deprecated) == [f EXCEPT !.m_deprecated = deprecated]
set_required(f, required) == [f EXCEPT !.m_required = required]
set_values(f, values) == [f EXCEPT !.m_expected_values = values]

value_size(v) == v.m_size
value_offset(v) == v.m_offset
symbols(v) == v.m_symbols
type_mask(v) == v.m_type_mask
name(f) == f.m_name
is_required(f) == f.m_required
is_deprecated(f) == f.m_deprecated
expected_values(f) == f.m_expected_values

Max(a, b) == IF a >= b THEN a ELSE b

RECURSIVE SumSizes(_, _)
SumSizes(vs, i) ==
    IF i > Len(vs) THEN 0 ELSE value_size(vs[i]) + SumSizes(vs, i + 1)

field_size(f) == SumSizes(expected_values(f), 1)

RECURSIVE MaxExtent(_, _, _)
MaxExtent(vs, i, minimum_size) ==
    IF i > Len(vs) THEN minimum_size
    ELSE MaxExtent(vs, i + 1,
                   Max(minimum_size, value_offset(vs[i]) + value_size(vs[i])))

\* Variant: the extent taken as the sum of the widths (field::size()).
required_data_size_as_size(f) == SumSizes(expected_values(f), 1)

required_data_size(f) == MaxExtent(expected_values(f), 1, 0)

field_offset(f) == value_offset(expected_values(f)[1])

\* m_type_mask & bit
Has(v, bits) == type_mask(v) \cap bits # {}

type_allowed(v, type) ==
    CASE type \in {"file_reference", "resource_id"} ->
            Has(v, {"resource_reference"})
      [] type = "identifier" ->
            IF symbols(v) # <<>> THEN Has(v, {"resource_reference"})
            ELSE Has(v, {"integer", "bitmask"})
      [] type = "integer" -> Has(v, {"integer", "bitmask"})
      [] type = "string" -> Has(v, {"string"})
      [] type = "percentage" -> Has(v, {"integer"})
      [] type = "color" -> Has(v, {"color"})

\* Variant: the generator runs at the cursor it finds.
write_default_value_in_place(v, d) ==
    IF v.m_default_value # <<>>
    THEN write_integer(d, v.m_default_value[1].value,
                       v.m_default_value[1].width)
    ELSE d

write_default_value(v, d) ==
    IF v.m_default_value # <<>>
    THEN LET gen == v.m_default_value[1]
         IN  write_integer(set_insertion_point(d, v.m_offset),
                           gen.value, gen.width)
    ELSE d

\* --------------------------------------------------------------------------
\* The assembler engine.  x is the state a call works on:
\*   d      the blob,   diag  the diagnostics,   status,
\*   oob    whether values()[n] was read past the end of the values.
\* --------------------------------------------------------------------------
\* Variant: the lookup without the report.
find_field_quiet(x, fields, fname, required) ==
    [x |-> x, field |-> field_named(fields, fname)]

find_field(x, fields, fname, required) ==
    LET field == field_named(fields, fname)
    IN  [x |-> IF required /\ field = <<>>
               THEN log_error(x, Message("MissingRequiredField", fname, -1))
               ELSE x,
         field |-> field]

\* The eight width/signedness branches write the same bytes for either
\* signedness: the literal's value reduced to the width.  A width other
\* than 1, 2, 4 or 8 throws before the literal is parsed; a literal without
\* a leading number throws std::invalid_argument.
encode(x, value, width, is_signed) ==
    IF width \in {1, 2, 4, 8}
    THEN IF Converts(value)
         THEN [x EXCEPT !.d = write_integer(@, stol(value), width)]
         ELSE throw(x)
    ELSE throw(x)

encode_integer(x, value, ev) == encode(x, value.text, value_size(ev), FALSE)

\* Variant: the reference written in the declared width.
encode_resource_id_sized(x, value, ev) ==
    encode(x, value.text, value_size(ev), TRUE)

encode_resource_id(x, value, ev) ==
    IF Converts(value.text)
    THEN [x EXCEPT !.d = write_signed_word(@, stol(value.text))]
    ELSE throw(x)

encode_string(x, value, ev) ==
    IF Has(ev, {"p_string"})
    THEN [x EXCEPT !.d = write_cstr(@, value.text, value_size(ev))]
    ELSE [x EXCEPT !.d = write_pstr(@, value.text)]

RECURSIVE SymbolIndex(_, _, _)
SymbolIndex(syms, text, i) ==
    IF i > Len(syms) THEN 0
    ELSE IF syms[i][1] = text THEN i
    ELSE SymbolIndex(syms, text, i + 1)

encode_identifier(x, value, ev) ==
    LET x1 == IF SymbolIndex(symbols(ev), value.text, 1) # 0
              THEN encode(x, value.text, value_size(ev), FALSE)
              ELSE x
    IN  IF x1.status # "ok" THEN x1
        ELSE log_error(x1, Message("UnrecognizedSymbol", value.text, -1))

encode_color(x, value, ev) ==
    IF Converts(value.text)
    THEN [x EXCEPT !.d = write_long(@, stol(value.text))]
    ELSE throw(x)

encode_value(x, value, ev) ==
    CASE value.type \in {"integer", "percentage"} -> encode_integer(x, value, ev)
      [] value.type = "resource_id" -> encode_resource_id(x, value, ev)
      [] value.type = "string" -> encode_string(x, value, ev)
      [] value.type = "identifier" -> encode_identifier(x, value, ev)
      [] value.type = "file_reference" -> x
      [] value.type = "color" -> encode_color(x, value, ev)

\* Variant: the value written where the cursor stands.
seek_value_skipped(x, ev) == x

seek_value(x, ev) == [x EXCEPT !.d = set_insertion_point(@, value_offset(ev))]

check_type(x, field, value, ev, n) ==
    IF ~type_allowed(ev, value.type)
    THEN log_error(x, Message("ValueTypeMismatch", name(field), n))
    ELSE x

\* One turn of the loop over the expected values.  values()[n] past the
\* end of the provided values is undefined: ub[n] is what the read gives,
\* a fault or an indeterminate value.
assemble_value(x, field, values, n, ub) ==
    LET past == n >= Len(values)
        value == IF past THEN ub[n] ELSE values[n + 1]
        ev == expected_values(field)[n + 1]
        x0 == [x EXCEPT !.oob = @ \/ past]
    IN  IF value.type = "fault" THEN crash(x0)
        ELSE encode_value(seek_value(check_type(x0, field, value, ev, n), ev),
                          value, ev)

RECURSIVE assemble_values(_, _, _, _, _)
assemble_values(x, field, values, n, ub) ==
    IF n >= Len(expected_values(field)) \/ x.status # "ok" THEN x
    ELSE assemble_values(assemble_value(x, field, values, n, ub),
                         field, values, n + 1, ub)

RECURSIVE write_defaults(_, _, _)
write_defaults(x, field, i) ==
    IF i > Len(expected_values(field)) THEN x
    ELSE write_defaults(
            [x EXCEPT !.d = write_default_value(expected_values(field)[i], @)],
            field, i + 1)

check_arity(x, field, values) ==
    IF Len(values) # Len(expected_values(field))
    THEN log_error(x, Message("FieldArityMismatch", name(field), -1))
    ELSE x

ensure_size(x, field) ==
    [x EXCEPT !.d = set_insertion_point(
                        pad_to_size(set_insertion_point(@, data_size(@)),
                                    required_data_size(field)),
                        field_offset(field))]

warn_deprecated(x, field) ==
    IF is_deprecated(field)
    THEN log_warning(x, Message("DeprecatedFieldUsed", name(field), -1))
    ELSE x

\* kdk::assembler::assemble(field), start to end.
assemble_result(x, fields, field, ub) ==
    LET found == find_field(x, fields, name(field), is_required(field))
        x1 == warn_deprecated(ensure_size(found.x, field), field)
    IN  IF found.field # <<>>
        THEN assemble_values(check_arity(x1, field, found.field[1].m_values),
                             field, found.field[1].m_values, 0, ub)
        ELSE write_defaults(x1, field, 1)

\* --------------------------------------------------------------------------
\* The inputs: literals, raw fields a parser can hand over, and the schema
\* table the driver assembles with.
\* --------------------------------------------------------------------------
L_1 == <<"1">>
L_300 == <<"3", "0", "0">>
L_m2 == <<"-", "2">>
L_kNone == <<"k", "N", "o", "n", "e">>
L_kRed == <<"k", "R", "e", "d">>
L_kB == <<"k", "B">>
L_Hi == <<"H", "i">>

SymTab == << <<L_kNone, 0>>, <<L_kRed, 1>> >>
SymNum == << <<L_kB, 2>>, <<L_1, 5>> >>

Gen(width, value) == [width |-> width, value |-> value]

RawFields ==
    { resource_field("v", <<Value(L_1, "integer")>>),
      resource_field("v", <<Value(L_300, "percentage")>>),
      resource_field("v", <<Value(L_m2, "resource_id")>>),
      resource_field("v", <<Value(L_Hi, "string")>>),
      resource_field("v", <<Value(L_kRed, "identifier")>>),
      resource_field("v", <<Value(L_kB, "identifier")>>),
      resource_field("v", <<Value(L_1, "identifier")>>),
      resource_field("v", <<Value(L_Hi, "file_reference")>>),
      resource_field("v", <<Value(L_300, "color")>>),
      resource_field("p", <<Value(L_1, "integer"), Value(L_300, "integer")>>),
      resource_field("p", <<Value(L_1, "integer")>>),
      resource_field("p", <<Value(L_m2, "integer"), Value(L_1, "integer"),
                            Value(L_300, "integer")>>) }

One(v) == set_values(named(v.m_name), <<v>>)

Schemas ==
    { One(set_default_value(expect("v", {"integer"}, 0, 1), Gen(1, 9))),
      set_deprecated(One(expect("v", {"bitmask"}, 1, 2)), TRUE),
      One(expect("v", {"integer"}, 0, 3)),
      One(expect("v", {"resource_reference"}, 1, 1)),
      One(set_symbols(expect("v", {"resource_reference"}, 0, 2), SymTab)),
      One(set_symbols(expect("v", {"resource_reference"}, 1, 1), SymNum)),
      set_required(One(set_default_value(
          expect("v", {"resource_reference"}, 0, 4), Gen(4, -1))), TRUE),
      One(set_symbols(expect("v", {"resource_reference"}, 2, 8), SymTab)),
      One(expect("v", {"string", "p_string"}, 0, 4)),
      One(expect("v", {"string"}, 1, 2)),
      One(expect("v", {"color"}, 0, 4)),
      One(set_symbols(expect("v", {"integer"}, 0, 2), SymTab)),
      set_required(set_values(named("p"),
          <<expect("w", {"integer"}, 2, 1),
            set_default_value(expect("h", {"integer"}, 4, 2),
                              Gen(2, 65535))>>), TRUE),
      set_deprecated(set_values(named("p"),
          <<set_default_value(expect("a", {"integer"}, 10, 2), Gen(2, 65535)),
            expect("b", {"integer", "bitmask"}, 0, 1)>>), TRUE) }

\* max over the value slots of offset + size, as the layout defines it.
Extent(f) ==
    LET ends == {f.m_expected_values[i].m_offset + f.m_expected_values[i].m_size :
                    i \in 1 .. Len(f.m_expected_values)} \cup {0}
    IN  CHOOSE e \in ends : \A o \in ends : e >= o

\* What a read past the end of the provided values can give.
Fault == Value(<<>>, "fault")
Indeterminate == {Value(<<"7">>, "integer"), Value(<<>>, "file_reference")}
UBOutcomes == {Fault} \cup Indeterminate

\* --------------------------------------------------------------------------
\* The state machine
\* --------------------------------------------------------------------------
Init ==
    /\ m_fields = <<>>
    /\ pc = "build"
    /\ m_blob = [bytes |-> <<>>, ip |-> 0]
    /\ diag = <<>>
    /\ status = "ok"
    /\ calls = 0
    /\ last = <<>>
    /\ maxReq = 0

\* kdk::resource::add_field
add_field(field) ==
    /\ pc = "build"
    /\ Len(m_fields) < MaxFields
    /\ m_fields' = Append(m_fields, field)
    /\ UNCHANGED <<pc, m_blob, diag, status, calls, last, maxReq>>

\* kdk::assembler::assembler(resource)
construct ==
    /\ pc = "build"
    /\ pc' = "ready"
    /\ UNCHANGED <<m_fields, m_blob, diag, status, calls, last, maxReq>>

\* kdk::assembler::assemble(field)
assemble_field(field) ==
    /\ pc = "ready"
    /\ status = "ok"
    /\ calls < MaxCalls
    /\ LET found == field_named(m_fields, name(field))
           values == IF found = <<>> THEN <<>> ELSE found[1].m_values
           first == IF found = <<>> THEN Len(expected_values(field))
                    ELSE Len(values)
       IN  \E ub \in [first .. (Len(expected_values(field)) - 1) -> UBOutcomes] :
             LET x == assemble_result(
                          [d |-> m_blob, diag |-> diag, status |-> "ok",
                           oob |-> FALSE],
                          m_fields, field, ub)
             IN  /\ m_blob' = x.d
                 /\ diag' = x.diag
                 /\ status' = x.status
                 /\ last' = <<[field |-> field, found |-> found,
                               bytes0 |-> m_blob.bytes, ip0 |-> m_blob.ip,
                               ndiag0 |-> Len(diag),
                               oob |-> x.oob, ub |-> ub]>>
    /\ calls' = calls + 1
    /\ maxReq' = Max(maxReq, Extent(field))
    /\ UNCHANGED <<m_fields, pc>>

\* kdk::assembler::assemble(): the accumulated blob is handed back.
assemble ==
    /\ pc = "ready"
    /\ status = "ok"
    /\ pc' = "done"
    /\ UNCHANGED <<m_fields, m_blob, diag, status, calls, last, maxReq>>

Next ==
    \/ \E field \in RawFields : add_field(field)
    \/ construct
    \/ \E field \in Schemas : assemble_field(field)
    \/ assemble

Spec == Init /\ [][Next]_vars

\* --------------------------------------------------------------------------
\* Vocabulary of the properties: the most recent assemble(field) call
\* --------------------------------------------------------------------------
Called == last # <<>>
TheCall == last[1]
Present == TheCall.found # <<>>
Slots == TheCall.field.m_expected_values
Provided == IF Present THEN TheCall.found[1].m_values ELSE <<>>
NewDiag == SubSeq(diag, TheCall.ndiag0 + 1, Len(diag))
Reported(level, kind) ==
    {i \in 1 .. Len(NewDiag) :
        NewDiag[i].level = level /\ NewDiag[i].msg.kind = kind}
Size == Len(m_blob.bytes)
Size0 == Len(TheCall.bytes0)
\* Byte i (from 0) before the call, a padded byte being zero, and after it.
Old(i) == IF i < Size0 THEN TheCall.bytes0[i + 1] ELSE 0
Now(i) == m_blob.bytes[i + 1]
Range(v, width) == v.m_offset .. (v.m_offset + width - 1)

RECURSIVE Shift(_, _)
Shift(n, k) == IF k = 0 THEN n ELSE Shift(n \div 256, k - 1)
\* Byte j (from 0, most significant first) of n stored in width bytes.
ByteAt(n, width, j) == Shift(n, width - 1 - j) % 256

GreatestOf(S) == CHOOSE a \in S : \A b \in S : a >= b

\* The blob an absent field leaves: padded to the extent, each slot's
\* generator output at the slot's offset (a later slot over an earlier one),
\* every other byte as it was.
DefaultWriters(i) ==
    {n \in 1 .. Len(Slots) :
        /\ Slots[n].m_default_value # <<>>
        /\ i \in Range(Slots[n], Slots[n].m_default_value[1].width)}
AbsentByte(i) ==
    IF DefaultWriters(i) = {} THEN Old(i)
    ELSE LET n == GreatestOf(DefaultWriters(i))
             gen == Slots[n].m_default_value[1]
         IN  ByteAt(gen.value, gen.width, i - Slots[n].m_offset)
AbsentSize ==
    GreatestOf({Size0, Extent(TheCall.field)} \cup
               {Slots[n].m_offset + Slots[n].m_default_value[1].width :
                   n \in {k \in 1 .. Len(Slots) : Slots[k].m_default_value # <<>>}})

\* The value of the literals that stand for numbers.
LitVal(text) ==
    CASE text = L_1 -> 1
      [] text = L_300 -> 300
      [] text = L_m2 -> 0 - 2

\* --------------------------------------------------------------------------
\* C1  Symbol resolution: a present field's identifier value whose literal
\* is an entry of the slot's symbol table leaves, at the slot's offset and
\* in the slot's width, the integer of that entry.
\* --------------------------------------------------------------------------
C1_SymbolResolution ==
    (Called /\ Present /\ Len(Provided) = Len(Slots)) =>
        \A n \in 1 .. Len(Slots) :
            \A k \in 1 .. Len(Slots[n].m_symbols) :
                (/\ Provided[n].type = "identifier"
                 /\ Provided[n].text = Slots[n].m_symbols[k][1]) =>
                    /\ Size >= Slots[n].m_offset + Slots[n].m_size
                    /\ \A j \in 0 .. (Slots[n].m_size - 1) :
                          Now(Slots[n].m_offset + j) =
                              ByteAt(Slots[n].m_symbols[k][2], Slots[n].m_size, j)

\* --------------------------------------------------------------------------
\* C2  Arity enforcement: a present field with a number of values other
\* than the expected one reports FieldArityMismatch, neither faults nor
\* reads a value that is not there, and leaves each slot without a value
\* zero-filled or default-filled.
\* --------------------------------------------------------------------------
C2_ArityEnforcement ==
    (Called /\ Present /\ Len(Provided) # Len(Slots)) =>
        /\ Reported("error", "FieldArityMismatch") # {}
        /\ status # "crashed"
        /\ ~TheCall.oob
        /\ \A n \in (Len(Provided) + 1) .. Len(Slots) :
              \A i \in Range(Slots[n], Slots[n].m_size) :
                  /\ i < Size
                  /\ Now(i) = Old(i) \/ Now(i) = AbsentByte(i)

\* --------------------------------------------------------------------------
\* C3  Blob size: the blob is at least as long as the greatest extent
\* (offset + size over the slots) of the fields assembled so far, and no
\* assemble(field) call leaves it shorter than it found it.
\* --------------------------------------------------------------------------
C3_BlobSize ==
    /\ Size >= maxReq
    /\ Called => Size >= Size0

C3_Witness ==
    /\ calls = 2
    /\ Extent(TheCall.field) < Size0
    /\ Reported("error", "ValueTypeMismatch") # {}
    /\ Size = maxReq

RefWriters(i) == {n \in 1 .. Len(Slots) : i \in Range(Slots[n], 2)}

\* --------------------------------------------------------------------------
\* C4  Resource reference width: a present field whose values are all
\* resource_id has, for each value, the signed 16-bit word of the literal
\* in the two bytes at the slot's offset, whatever size the slot declares;
\* every other byte is as it was (zero where the blob grew).
\* --------------------------------------------------------------------------
C4_ResourceReferenceWidth ==
    (/\ Called /\ Present /\ Len(Provided) = Len(Slots)
     /\ \A n \in 1 .. Len(Provided) : Provided[n].type = "resource_id") =>
        /\ status = "ok"
        /\ Size = GreatestOf({Size0, Extent(TheCall.field)} \cup
                             {Slots[n].m_offset + 2 : n \in 1 .. Len(Slots)})
        /\ \A i \in 0 .. (Size - 1) :
              IF RefWriters(i) = {} THEN Now(i) = Old(i)
              ELSE LET n == GreatestOf(RefWriters(i))
                   IN  Now(i) = ByteAt(LitVal(Provided[n].text) % 65536, 2,
                                       i - Slots[n].m_offset)

C4_Witness ==
    /\ Called /\ Present /\ Len(Provided) = 1 /\ Len(Slots) = 1
    /\ Provided[1].type = "resource_id"
    /\ Slots[1].m_size = 1
    /\ Size0 > Slots[1].m_offset + 2
    /\ Now(Slots[1].m_offset) = 255
    /\ Now(Slots[1].m_offset + 1) = 254

\* --------------------------------------------------------------------------
\* C5  Missing required field: a required field the resource lacks reports
\* exactly one missing-field error, assembly goes on, and the blob is the
\* one an absent optional field with the same slots leaves.
\* --------------------------------------------------------------------------
C5_MissingRequiredField ==
    (Called /\ ~Present /\ TheCall.field.m_required) =>
        /\ Cardinality(Reported("error", "MissingRequiredField")) = 1
        /\ \A i \in 1 .. Len(NewDiag) :
              NewDiag[i].level = "error" =>
                  NewDiag[i].msg = Message("MissingRequiredField",
                                           TheCall.field.m_name, -1)
        /\ status = "ok"
        /\ Size = AbsentSize
        /\ \A i \in 0 .. (Size - 1) : Now(i) = AbsentByte(i)

C5_Witness ==
    /\ Called /\ ~Present /\ TheCall.field.m_required
    /\ calls = 2
    /\ Len(Slots) = 2
    /\ Size0 > 0
    /\ \E i \in 0 .. (Size0 - 1) : Old(i) # 0 /\ Now(i) = Old(i)
    /\ Now(4) = 255

LaterDefault(n, i) ==
    \E k \in (n + 1) .. Len(Slots) : k \in DefaultWriters(i)

\* --------------------------------------------------------------------------
\* C6  Default fill: for a field the resource lacks, each slot with a
\* generator holds the generator's output at the slot's offset and each
\* slot without one is left as it was (zero from padding), whatever other
\* fields the resource holds and wherever the cursor stood.
\* --------------------------------------------------------------------------
C6_DefaultFill ==
    (Called /\ ~Present) =>
        \A n \in 1 .. Len(Slots) :
            IF Slots[n].m_default_value # <<>>
            THEN LET gen == Slots[n].m_default_value[1]
                 IN  \A i \in Range(Slots[n], gen.width) :
                        /\ i < Size
                        /\ LaterDefault(n, i) \/
                           Now(i) = ByteAt(gen.value, gen.width,
                                           i - Slots[n].m_offset)
            ELSE \A i \in Range(Slots[n], Slots[n].m_size) :
                    /\ i < Size
                    /\ DefaultWriters(i) # {} \/ Now(i) = Old(i)

C6_Witness ==
    /\ Called /\ ~Present
    /\ calls = 2
    /\ m_fields # <<>>
    /\ \E n \in 1 .. Len(Slots) :
          /\ Slots[n].m_default_value = <<Gen(2, 65535)>>
          /\ Slots[n].m_offset = 10
          /\ TheCall.ip0 # 10
    /\ Now(10) = 255 /\ Now(11) = 255
    /\ Size0 > 0
    /\ \E i \in 0 .. (Size0 - 1) : Old(i) # 0

\* --------------------------------------------------------------------------
\* C7  Deprecation warning: one warning when the field is deprecated and
\* present, none when it is absent or not deprecated, and the bytes are
\* those of the same field not deprecated.
\* --------------------------------------------------------------------------
C7_DeprecationWarning ==
    Called =>
        /\ Cardinality(Reported("warning", "DeprecatedFieldUsed")) =
              (IF TheCall.field.m_deprecated /\ Present THEN 1 ELSE 0)
        /\ m_blob.bytes =
              assemble_result(
                  [d |-> [bytes |-> TheCall.bytes0, ip |-> TheCall.ip0],
                   diag |-> <<>>, status |-> "ok", oob |-> FALSE],
                  m_fields, set_deprecated(TheCall.field, FALSE),
                  TheCall.ub).d.bytes

IsSymbol(v, text) == \E k \in 1 .. Len(v.m_symbols) : v.m_symbols[k][1] = text
SymbolReports(text) ==
    {i \in Reported("error", "UnrecognizedSymbol") : NewDiag[i].msg.subject = text}

\* --------------------------------------------------------------------------
\* C8  Unrecognized symbol: for an identifier value of a present field the
\* error is reported when the literal is no entry of the symbol table and
\* is not reported when it is one; when it is none, nothing is encoded and
\* the slot keeps its bytes.
\* --------------------------------------------------------------------------
C8_UnrecognizedSymbol ==
    (Called /\ Present /\ Len(Provided) = Len(Slots)) =>
        \A n \in 1 .. Len(Slots) :
            Provided[n].type = "identifier" =>
                IF IsSymbol(Slots[n], Provided[n].text)
                THEN SymbolReports(Provided[n].text) = {}
                ELSE /\ SymbolReports(Provided[n].text) # {}
                     /\ \A i \in Range(Slots[n], Slots[n].m_size) :
                           Now(i) = Old(i)

Allowed(v, type) ==
    LET bit(b) == b \in v.m_type_mask
    IN  CASE type \in {"resource_id", "file_reference"} -> bit("resource_reference")
          [] type = "identifier" /\ v.m_symbols # <<>> -> bit("resource_reference")
          [] type = "identifier" /\ v.m_symbols = <<>> ->
                bit("integer") \/ bit("bitmask")
          [] type = "integer" -> bit("integer") \/ bit("bitmask")
          [] type = "percentage" -> bit("integer")
          [] type = "string" -> bit("string")
          [] type = "color" -> bit("color")

MismatchReported(n) ==
    \E i \in Reported("error", "ValueTypeMismatch") :
        NewDiag[i].msg = Message("ValueTypeMismatch", TheCall.field.m_name, n)

\* --------------------------------------------------------------------------
\* C9  Type checking: value n of a present field gets a ValueTypeMismatch
\* naming the field and n exactly when its semantic type is not allowed by
\* the slot's mask; assembly then goes on and the slot's bytes are left as
\* they were instead of being encoded from the literal.
\* --------------------------------------------------------------------------
C9_TypeChecking ==
    (Called /\ Present /\ Len(Provided) = Len(Slots)) =>
        \A n \in 1 .. Len(Slots) :
            /\ MismatchReported(n - 1) <=> ~Allowed(Slots[n], Provided[n].type)
            /\ ~Allowed(Slots[n], Provided[n].type) =>
                  /\ status = "ok"
                  /\ \A i \in Range(Slots[n], Slots[n].m_size) : Now(i) = Old(i)

\* --------------------------------------------------------------------------
\* C10  Frame of a field assembly: a call never shortens the blob and never
\* changes a byte that was there before and lies outside the ranges
\* [offset, offset + size) of the field's slots.  Stated for the calls
\* that report nothing, so that no rejected value is involved.
\* --------------------------------------------------------------------------
C10_FrameDeclared ==
    (Called /\ status = "ok" /\ NewDiag = <<>>) =>
        /\ Size >= Size0
        /\ \A i \in 0 .. (Size0 - 1) :
              Now(i) # Old(i) =>
                  \E n \in 1 .. Len(Slots) : i \in Range(Slots[n], Slots[n].m_size)

\* The value slot n was given, and the bytes its encoding writes.
Processed(n) ==
    IF n <= Len(Provided) THEN Provided[n] ELSE TheCall.ub[n - 1]

WrittenWidth(n) ==
    IF ~Present
    THEN IF Slots[n].m_default_value # <<>>
         THEN Slots[n].m_default_value[1].width ELSE 0
    ELSE LET v == Processed(n)
         IN  CASE v.type \in {"integer", "percentage", "identifier"} ->
                      Slots[n].m_size
               [] v.type = "resource_id" -> 2
               [] v.type = "color" -> 4
               [] v.type = "string" ->
                      IF "p_string" \in Slots[n].m_type_mask
                      THEN Slots[n].m_size ELSE 1 + Len(v.text)
               [] OTHER -> 0

\* C10 as amended: the ranges are those the encodings write, [offset,
\* offset + w) with w the declared size for integer, percentage, identifier
\* and fixed C strings, 2 for resource_id, 4 for color, 1 + the text length
\* for a Pascal string, 0 for file_reference, and the generator's width for
\* a default.
C10_FrameWritten ==
    Called =>
        /\ Size >= Size0
        /\ \A i \in 0 .. (Size0 - 1) :
              Now(i) # Old(i) =>
                  \E n \in 1 .. Len(Slots) : i \in Range(Slots[n], WrittenWidth(n))

C10_Witness ==
    /\ Called /\ Present /\ calls = 2 /\ status = "ok"
    /\ Len(Slots) = 2
    /\ Slots[1].m_offset > Slots[2].m_offset
    /\ \E i \in 0 .. (Size0 - 1) : Now(i) # Old(i)
    /\ \E i \in 0 .. (Size0 - 1) : Old(i) # 0 /\ Now(i) = Old(i)

====
